---- MODULE Spec2Model ----
(***************************************************************************)
(* InvoiceAI: the page (src/app/page.tsx) that holds the invoice image,    *)
(* the editable JSON text and the status, and the invoice parsing flow     *)
(* (src/ai/flows/parse-invoice.ts) that asks the model for structured      *)
(* data and validates it against the zod output schema.                    *)
(***************************************************************************)
EXTENDS Integers, Sequences, FiniteSets, TLC

(***************************************************************************)
(* JSON values.  An object is an ordered list of <<key, value>> pairs, as  *)
(* a JavaScript object keeps its own insertion order.                      *)
(***************************************************************************)
Null == [t |-> "null"]
Str(s) == [t |-> "string", v |-> s]
Num(n) == [t |-> "number", v |-> n]
Arr(a) == [t |-> "array", v |-> a]
Obj(p) == [t |-> "object", v |-> p]

Range(s) == {s[i] : i \in DOMAIN s}
Keys(o) == [i \in DOMAIN o.v |-> o.v[i][1]]
KeySet(o) == Range(Keys(o))
HasKey(o, k) == k \in KeySet(o)
Get(o, k) == o.v[CHOOSE i \in DOMAIN o.v : o.v[i][1] = k][2]

\* The object without key k, the order of the other keys kept.
Without(o, k) == Obj(SelectSeq(o.v, LAMBDA p : p[1] # k))
\* The object with key k set to x: in place when present, appended when new.
With(o, k, x) ==
    IF HasKey(o, k)
    THEN Obj([i \in DOMAIN o.v |-> IF o.v[i][1] = k THEN <<k, x>> ELSE o.v[i]])
    ELSE Obj(Append(o.v, <<k, x>>))
Reverse(s) == [i \in DOMAIN s |-> s[Len(s) + 1 - i]]
Reordered(o) == Obj(Reverse(o.v))

(***************************************************************************)
(* zod schemas (parse-invoice.ts).  z.string(), z.number(), z.array(item), *)
(* z.object(shape) and .nullable().  No field is .optional() and none has  *)
(* a .default(): every key of a shape has to be present.                   *)
(***************************************************************************)
ZString == [kind |-> "string", nullable |-> FALSE]
ZNumber == [kind |-> "number", nullable |-> FALSE]
ZArray(item) == [kind |-> "array", nullable |-> FALSE, item |-> item]
ZObject(shape) == [kind |-> "object", nullable |-> FALSE, shape |-> shape]
Nullable(s) == [s EXCEPT !.nullable = TRUE]
ShapeKeys(s) == [i \in DOMAIN s.shape |-> s.shape[i][1]]

TaxItemSchema == ZObject(<<
    <<"tax_type", ZString>>,
    <<"tax_rate", ZNumber>>,
    <<"tax_amount", ZNumber>> >>)

InvoiceItemSchema == ZObject(<<
    <<"sl.no", Nullable(ZNumber)>>,
    <<"hsn", Nullable(ZString)>>,
    <<"description", ZString>>,
    <<"unit_price", ZNumber>>,
    <<"qty", ZNumber>>,
    <<"net_amount", ZNumber>>,
    <<"tax", ZArray(TaxItemSchema)>>,
    <<"total_amount", ZNumber>> >>)

BankDetailsSchema == ZObject(<<
    <<"account_name", Nullable(ZString)>>,
    <<"account_number", Nullable(ZString)>>,
    <<"bank_name", Nullable(ZString)>>,
    <<"branch", Nullable(ZString)>>,
    <<"ifsc", Nullable(ZString)>> >>)

ContactDetailsSchema == ZObject(<<
    <<"phone", Nullable(ZString)>>,
    <<"email", Nullable(ZString)>> >>)

SellerSchema == ZObject(<<
    <<"name", ZString>>,
    <<"gst", Nullable(ZString)>>,
    <<"pan", Nullable(ZString)>>,
    <<"address", Nullable(ZString)>>,
    <<"state", Nullable(ZString)>>,
    <<"pincode", Nullable(ZString)>>,
    <<"country", Nullable(ZString)>>,
    <<"bank_details", Nullable(BankDetailsSchema)>>,
    <<"contact_details", Nullable(ContactDetailsSchema)>> >>)

BuyerSchema == ZObject(<<
    <<"name", ZString>>,
    <<"gst", Nullable(ZString)>>,
    <<"pan", Nullable(ZString)>>,
    <<"address", Nullable(ZString)>>,
    <<"state", Nullable(ZString)>>,
    <<"pincode", Nullable(ZString)>>,
    <<"country", Nullable(ZString)>>,
    <<"contact_details", Nullable(ContactDetailsSchema)>>,
    <<"billing_address", Nullable(ZString)>>,
    <<"shipping_address", Nullable(ZString)>> >>)

ExtractedDataSchema == ZObject(<<
    <<"order_number", Nullable(ZString)>>,
    <<"invoice_number", ZString>>,
    <<"order_date", Nullable(ZString)>>,
    <<"invoice_id", Nullable(ZString)>>,
    <<"invoice_date", ZString>>,
    <<"seller", SellerSchema>>,
    <<"buyer", BuyerSchema>>,
    <<"place_of_supply", Nullable(ZString)>>,
    <<"place_of_delivery", Nullable(ZString)>>,
    <<"invoice_items", ZArray(InvoiceItemSchema)>>,
    <<"transaction_id", Nullable(ZString)>>,
    <<"date_time", Nullable(ZString)>>,
    <<"invoice_value", ZNumber>>,
    <<"mode_of_payment", Nullable(ZString)>> >>)

ParseInvoiceOutputSchema == ZObject(<<
    <<"extractedData", Nullable(ExtractedDataSchema)>> >>)

(***************************************************************************)
(* The second flow definition of the repository (src/unnamed/part_000):    *)
(* the same shapes with every field nullable.                              *)
(***************************************************************************)
P0_InvoiceItemSchema == ZObject(<<
    <<"sl.no", Nullable(ZNumber)>>,
    <<"hsn", Nullable(ZString)>>,
    <<"description", Nullable(ZString)>>,
    <<"unit_price", Nullable(ZNumber)>>,
    <<"qty", Nullable(ZNumber)>>,
    <<"net_amount", Nullable(ZNumber)>>,
    <<"tax", Nullable(ZArray(TaxItemSchema))>>,
    <<"total_amount", Nullable(ZNumber)>> >>)

P0_SellerSchema == ZObject(<<
    <<"name", Nullable(ZString)>>,
    <<"gst", Nullable(ZString)>>,
    <<"pan", Nullable(ZString)>>,
    <<"address", Nullable(ZString)>>,
    <<"state", Nullable(ZString)>>,
    <<"pincode", Nullable(ZString)>>,
    <<"country", Nullable(ZString)>>,
    <<"bank_details", Nullable(BankDetailsSchema)>>,
    <<"contact_details", Nullable(ContactDetailsSchema)>> >>)

P0_BuyerSchema == ZObject(<<
    <<"name", Nullable(ZString)>>,
    <<"gst", Nullable(ZString)>>,
    <<"pan", Nullable(ZString)>>,
    <<"address", Nullable(ZString)>>,
    <<"state", Nullable(ZString)>>,
    <<"pincode", Nullable(ZString)>>,
    <<"country", Nullable(ZString)>>,
    <<"contact_details", Nullable(ContactDetailsSchema)>>,
    <<"billing_address", Nullable(ZString)>>,
    <<"shipping_address", Nullable(ZString)>> >>)

P0_ExtractedDataSchema == ZObject(<<
    <<"order_number", Nullable(ZString)>>,
    <<"invoice_number", Nullable(ZString)>>,
    <<"order_date", Nullable(ZString)>>,
    <<"invoice_id", Nullable(ZString)>>,
    <<"invoice_date", Nullable(ZString)>>,
    <<"seller", Nullable(P0_SellerSchema)>>,
    <<"buyer", Nullable(P0_BuyerSchema)>>,
    <<"place_of_supply", Nullable(ZString)>>,
    <<"place_of_delivery", Nullable(ZString)>>,
    <<"invoice_items", Nullable(ZArray(P0_InvoiceItemSchema))>>,
    <<"transaction_id", Nullable(ZString)>>,
    <<"date_time", Nullable(ZString)>>,
    <<"invoice_value", Nullable(ZNumber)>>,
    <<"mode_of_payment", Nullable(ZString)>> >>)

P0_ParseInvoiceOutputSchema == ZObject(<<
    <<"extractedData", Nullable(P0_ExtractedDataSchema)>> >>)

(***************************************************************************)
(* Output-schema validation.  Issues(schema, value, path) lists, depth     *)
(* first and in declaration order, every place where the value departs     *)
(* from the schema: a key of a shape that is absent ("required") or a      *)
(* value of the wrong primitive type ("type"; a number given as a string   *)
(* is not coerced).  Keys the shape does not declare raise no issue.       *)
(***************************************************************************)
RECURSIVE Issues(_, _, _)
RECURSIVE ShapeIssues(_, _, _, _)
RECURSIVE ItemIssues(_, _, _, _)

\* Variant of ShapeIssues: every key of the shape as if declared .optional().
RECURSIVE ShapeIssuesOptional(_, _, _, _)
ShapeIssuesOptional(schema, value, path, i) ==
    IF i > Len(schema.shape) THEN <<>>
    ELSE LET k == schema.shape[i][1]
             here == IF HasKey(value, k)
                     THEN Issues(schema.shape[i][2], Get(value, k), Append(path, k))
                     ELSE <<>>
         IN  here \o ShapeIssuesOptional(schema, value, path, i + 1)

\* z.object: the keys of the shape from the i-th on, in declaration order.
ShapeIssues(schema, value, path, i) ==
    IF i > Len(schema.shape) THEN <<>>
    ELSE LET k == schema.shape[i][1]
             here == IF HasKey(value, k)
                     THEN Issues(schema.shape[i][2], Get(value, k), Append(path, k))
                     ELSE << [path |-> Append(path, k), keyword |-> "required"] >>
         IN  here \o ShapeIssues(schema, value, path, i + 1)

\* z.array: the elements from the i-th on.
ItemIssues(schema, value, path, i) ==
    IF i > Len(value.v) THEN <<>>
    ELSE Issues(schema.item, value.v[i], Append(path, ToString(i - 1)))
            \o ItemIssues(schema, value, path, i + 1)

\* Variant of Issues: numbers declared as z.coerce.number(), which takes a string.
IssuesCoercing(schema, value, path) ==
    IF value.t = "null"
    THEN IF schema.nullable THEN <<>> ELSE << [path |-> path, keyword |-> "type"] >>
    ELSE IF value.t = "string" /\ schema.kind = "number" THEN <<>>
    ELSE IF value.t # schema.kind
    THEN << [path |-> path, keyword |-> "type"] >>
    ELSE IF schema.kind = "object" THEN ShapeIssues(schema, value, path, 1)
    ELSE IF schema.kind = "array" THEN ItemIssues(schema, value, path, 1)
    ELSE <<>>

Issues(schema, value, path) ==
    IF value.t = "null"
    THEN IF schema.nullable THEN <<>> ELSE << [path |-> path, keyword |-> "type"] >>
    ELSE IF value.t # schema.kind
    THEN << [path |-> path, keyword |-> "type"] >>
    ELSE IF schema.kind = "object" THEN ShapeIssues(schema, value, path, 1)
    ELSE IF schema.kind = "array" THEN ItemIssues(schema, value, path, 1)
    ELSE <<>>

Conforms(schema, value) == Issues(schema, value, <<>>) = <<>>

(***************************************************************************)
(* JSON.stringify(value, null, 2): the text as a sequence of tokens.  Keys *)
(* come in the object's own order; a string is quoted, a number is not;    *)
(* every member starts on a new line indented by two spaces per level.     *)
(***************************************************************************)
RECURSIVE Spaces(_)
Spaces(n) == IF n = 0 THEN "" ELSE " " \o Spaces(n - 1)
Quote(s) == "\"" \o s \o "\""
NewLine(depth) == "\n" \o Spaces(2 * depth)

RECURSIVE Stringify(_, _)
RECURSIVE Members(_, _, _)
RECURSIVE Elements(_, _, _)

Members(pairs, depth, i) ==
    IF i > Len(pairs) THEN <<>>
    ELSE << NewLine(depth), Quote(pairs[i][1]), ": " >>
            \o Stringify(pairs[i][2], depth)
            \o (IF i < Len(pairs) THEN << "," >> ELSE <<>>)
            \o Members(pairs, depth, i + 1)

Elements(items, depth, i) ==
    IF i > Len(items) THEN <<>>
    ELSE << NewLine(depth) >>
            \o Stringify(items[i], depth)
            \o (IF i < Len(items) THEN << "," >> ELSE <<>>)
            \o Elements(items, depth, i + 1)

Stringify(value, depth) ==
    CASE value.t = "null" -> << "null" >>
      [] value.t = "string" -> << Quote(value.v) >>
      [] value.t = "number" -> << ToString(value.v) >>
      [] value.t = "array" ->
            IF value.v = <<>> THEN << "[]" >>
            ELSE << "[" >> \o Elements(value.v, depth + 1, 1) \o << NewLine(depth), "]" >>
      [] value.t = "object" ->
            IF value.v = <<>> THEN << "{}" >>
            ELSE << "{" >> \o Members(value.v, depth + 1, 1) \o << NewLine(depth), "}" >>

JSONstringify(value) == Stringify(value, 0)

(***************************************************************************)
(* The JSON schema written into the prompt text (parse-invoice.ts, prompt). *)
(* A property is nullable when it says "nullable": true or lists "null"    *)
(* among its types; "required" lists the keys an object has to carry.      *)
(***************************************************************************)
JString == [type |-> "STRING", nullable |-> FALSE]
JNumber == [type |-> "NUMBER", nullable |-> FALSE]
JArray(items) == [type |-> "ARRAY", nullable |-> FALSE, items |-> items]
JObject(properties, required) ==
    [type |-> "OBJECT", nullable |-> FALSE, properties |-> properties, required |-> required]
JNullable(s) == [s EXCEPT !.nullable = TRUE]
PropertyKeys(s) == { s.properties[i][1] : i \in DOMAIN s.properties }

PromptBankDetails == JObject(<<
    <<"account_name", JNullable(JString)>>,
    <<"account_number", JNullable(JString)>>,
    <<"bank_name", JNullable(JString)>>,
    <<"branch", JNullable(JString)>>,
    <<"ifsc", JNullable(JString)>> >>, {})

PromptSellerContact == JObject(<<
    <<"phone", JNullable(JString)>>,
    <<"email", JNullable(JString)>> >>, {})

PromptBuyerContact == JObject(<<
    <<"email", JNullable(JString)>>,
    <<"phone", JNullable(JString)>> >>, {})

PromptSeller == JObject(<<
    <<"name", JString>>,
    <<"gst", JNullable(JString)>>,
    <<"pan", JNullable(JString)>>,
    <<"address", JNullable(JString)>>,
    <<"state", JNullable(JString)>>,
    <<"pincode", JNullable(JString)>>,
    <<"country", JNullable(JString)>>,
    <<"bank_details", JNullable(PromptBankDetails)>>,
    <<"contact_details", JNullable(PromptSellerContact)>> >>, {"name"})

PromptBuyer == JObject(<<
    <<"name", JString>>,
    <<"gst", JNullable(JString)>>,
    <<"pan", JNullable(JString)>>,
    <<"address", JNullable(JString)>>,
    <<"state", JNullable(JString)>>,
    <<"pincode", JNullable(JString)>>,
    <<"country", JNullable(JString)>>,
    <<"contact_details", JNullable(PromptBuyerContact)>>,
    <<"billing_address", JNullable(JString)>>,
    <<"shipping_address", JNullable(JString)>> >>, {"name"})

PromptTaxItem == JObject(<<
    <<"tax_type", JString>>,
    <<"tax_rate", JNumber>>,
    <<"tax_amount", JNumber>> >>, {"tax_type", "tax_rate", "tax_amount"})

PromptInvoiceItem == JObject(<<
    <<"sl.no", JNullable(JNumber)>>,
    <<"hsn", JNullable(JString)>>,
    <<"description", JString>>,
    <<"unit_price", JNumber>>,
    <<"qty", JNumber>>,
    <<"net_amount", JNumber>>,
    <<"tax", JArray(PromptTaxItem)>>,
    <<"total_amount", JNumber>> >>,
    {"description", "unit_price", "qty", "net_amount", "total_amount"})

PromptSchema == JObject(<<
    <<"order_number", JNullable(JString)>>,
    <<"invoice_number", JString>>,
    <<"order_date", JNullable(JString)>>,
    <<"invoice_id", JNullable(JString)>>,
    <<"invoice_date", JString>>,
    <<"seller", JNullable(PromptSeller)>>,
    <<"buyer", JNullable(PromptBuyer)>>,
    <<"place_of_supply", JNullable(JString)>>,
    <<"place_of_delivery", JNullable(JString)>>,
    <<"invoice_items", JArray(PromptInvoiceItem)>>,
    <<"transaction_id", JNullable(JString)>>,
    <<"date_time", JNullable(JString)>>,
    <<"invoice_value", JNumber>>,
    <<"mode_of_payment", JNullable(JString)>> >>,
    {"invoice_number", "invoice_date", "seller", "buyer", "invoice_items", "invoice_value"})

\* The JSON type name of a value.
JsonType(value) ==
    CASE value.t = "string" -> "STRING"
      [] value.t = "number" -> "NUMBER"
      [] value.t = "array" -> "ARRAY"
      [] value.t = "object" -> "OBJECT"
      [] OTHER -> "null"

\* The value is what the prompt asks for: it is valid against the JSON
\* schema (types, nullability, required keys) and follows the sentences
\* around it: a field without a value is set to null, not left out ("set
\* its value to null"), and no field is added ("Do not add any extra fields
\* beyond this schema").
RECURSIVE Instructed(_, _)
Instructed(schema, value) ==
    IF value.t = "null" THEN schema.nullable
    ELSE IF JsonType(value) # schema.type THEN FALSE
    ELSE IF schema.type = "OBJECT"
    THEN /\ schema.required \subseteq KeySet(value)
         /\ KeySet(value) = PropertyKeys(schema)
         /\ \A i \in DOMAIN schema.properties :
                HasKey(value, schema.properties[i][1]) =>
                    Instructed(schema.properties[i][2], Get(value, schema.properties[i][1]))
    ELSE IF schema.type = "ARRAY"
    THEN \A i \in DOMAIN value.v : Instructed(schema.items, value.v[i])
    ELSE TRUE

(***************************************************************************)
(* The template the page starts from (page.tsx, initialJson).              *)
(***************************************************************************)
initialJson == Obj(<<
    <<"order_number", Null>>,
    <<"invoice_number", Str("")>>,
    <<"order_date", Null>>,
    <<"invoice_id", Str("")>>,
    <<"invoice_date", Str("")>>,
    <<"seller", Obj(<<
        <<"name", Str("")>>, <<"gst", Str("")>>, <<"pan", Str("")>>,
        <<"address", Str("")>>, <<"state", Str("")>>, <<"pincode", Str("")>>,
        <<"country", Null>>,
        <<"bank_details", Obj(<<
            <<"account_name", Str("")>>, <<"account_number", Str("")>>,
            <<"bank_name", Str("")>>, <<"branch", Str("")>>, <<"ifsc", Str("")>> >>)>>,
        <<"contact_details", Obj(<< <<"phone", Null>>, <<"email", Null>> >>)>> >>)>>,
    <<"buyer", Obj(<<
        <<"name", Str("")>>, <<"gst", Str("")>>, <<"pan", Null>>,
        <<"address", Str("")>>, <<"state", Str("")>>, <<"pincode", Str("")>>,
        <<"country", Null>>,
        <<"contact_details", Obj(<< <<"email", Null>>, <<"phone", Null>> >>)>>,
        <<"billing_address", Str("")>>, <<"shipping_address", Str("")>> >>)>>,
    <<"place_of_supply", Str("")>>,
    <<"place_of_delivery", Null>>,
    <<"invoice_items", Arr(<<>>)>>,
    <<"transaction_id", Null>>,
    <<"date_time", Null>>,
    <<"invoice_value", Num(0)>>,
    <<"mode_of_payment", Null>> >>)

(***************************************************************************)
(* What the model may answer.  FullCandidate is a complete extraction (one *)
(* item of 100 x 2 with 18% tax); the others are that object with one      *)
(* thing changed.                                                          *)
(***************************************************************************)
FullItem == Obj(<<
    <<"sl.no", Num(1)>>,
    <<"hsn", Str("998216")>>,
    <<"description", Str("Widget")>>,
    <<"unit_price", Num(100)>>,
    <<"qty", Num(2)>>,
    <<"net_amount", Num(200)>>,
    <<"tax", Arr(<< Obj(<< <<"tax_type", Str("GST")>>, <<"tax_rate", Num(18)>>,
                          <<"tax_amount", Num(36)>> >>) >>)>>,
    <<"total_amount", Num(236)>> >>)

FullSeller == Obj(<<
    <<"name", Str("Acme Ltd")>>, <<"gst", Str("29AAECA0163D1Z4")>>, <<"pan", Null>>,
    <<"address", Null>>, <<"state", Null>>, <<"pincode", Null>>, <<"country", Null>>,
    <<"bank_details", Obj(<<
        <<"account_name", Null>>, <<"account_number", Str("50200008759632")>>,
        <<"bank_name", Null>>, <<"branch", Null>>, <<"ifsc", Null>> >>)>>,
    <<"contact_details", Null>> >>)

FullBuyer == Obj(<<
    <<"name", Str("Omne Ltd")>>, <<"gst", Null>>, <<"pan", Null>>,
    <<"address", Null>>, <<"state", Null>>, <<"pincode", Null>>, <<"country", Null>>,
    <<"contact_details", Obj(<< <<"phone", Null>>, <<"email", Null>> >>)>>,
    <<"billing_address", Null>>, <<"shipping_address", Null>> >>)

FullCandidate == Obj(<<
    <<"order_number", Null>>,
    <<"invoice_number", Str("INV-001")>>,
    <<"order_date", Null>>,
    <<"invoice_id", Str("INV-001")>>,
    <<"invoice_date", Str("2025-02-11")>>,
    <<"seller", FullSeller>>,
    <<"buyer", FullBuyer>>,
    <<"place_of_supply", Null>>,
    <<"place_of_delivery", Null>>,
    <<"invoice_items", Arr(<< FullItem >>)>>,
    <<"transaction_id", Null>>,
    <<"date_time", Null>>,
    <<"invoice_value", Num(236)>>,
    <<"mode_of_payment", Null>> >>)

TopKeys == Range(ShapeKeys(ExtractedDataSchema))
ExtraKey == "confidence"
NumericItemKeys == {"sl.no", "unit_price", "qty", "net_amount", "total_amount"}
NumericTaxKeys == {"tax_rate", "tax_amount"}

\* FullCandidate with its only item replaced by item.
WithItem(item) == With(FullCandidate, "invoice_items", Arr(<< item >>))
\* FullItem with its only tax component replaced by tax.
WithTax(tax) == With(FullItem, "tax", Arr(<< tax >>))
FullTax == Get(FullItem, "tax").v[1]

\* Candidates that lack one top-level key.
LackingCandidates == { Without(FullCandidate, k) : k \in TopKeys }
\* Candidates with one top-level key explicitly null.
NulledCandidates == { With(FullCandidate, k, Null) : k \in TopKeys }
\* Candidates with a number given as a string.
StringNumberCandidates ==
    { With(FullCandidate, "invoice_value", Str("47200")) }
    \cup { WithItem(With(FullItem, k, Str("47200"))) : k \in NumericItemKeys }
    \cup { WithItem(WithTax(With(FullTax, k, Str("47200")))) : k \in NumericTaxKeys }
\* Candidates with an undeclared top-level key, and with the keys in another order.
ExtraCandidates ==
    { With(FullCandidate, ExtraKey, Num(1)),
      With(With(FullCandidate, "invoice_items", Arr(<<>>)), ExtraKey, Str("high")) }
ReorderedCandidates ==
    { Reordered(FullCandidate),
      With(FullCandidate, "seller", Reordered(FullSeller)) }
NestedCandidates ==
    { With(FullCandidate, "invoice_items", Arr(<<>>)),
      With(FullCandidate, "seller", Without(FullSeller, "name")),
      With(FullCandidate, "seller", With(FullSeller, "name", Null)),
      With(FullCandidate, "buyer", With(FullBuyer, "name", Null)),
      With(FullCandidate, "buyer", Without(FullBuyer, "gst")),
      WithItem(With(FullItem, "unit_price", Null)),
      WithItem(With(FullItem, "tax", Null)),
      WithItem(With(FullItem, "tax", Arr(<<>>))),
      WithItem(With(FullItem, "sl.no", Null)),
      WithItem(With(FullItem, "description", Num(7))),
      With(FullCandidate, "seller", With(FullSeller, "bank_details", Null)),
      With(FullCandidate, "seller", With(FullSeller, "bank_details", Str("HDFC"))),
      With(FullCandidate, "buyer", With(FullBuyer, "contact_details", Arr(<<>>))),
      With(FullCandidate, "invoice_number", Num(8461)),
      WithItem(Without(FullItem, "tax")) }

Candidates ==
    {FullCandidate} \cup LackingCandidates \cup NulledCandidates
    \cup StringNumberCandidates \cup ExtraCandidates \cup ReorderedCandidates
    \cup NestedCandidates

\* What a call of the prompt can end in: the call throws (time-out, service
\* unavailable, unparsable text), or it yields an output value.
Throws == [kind |-> "throws", value |-> Null]
Yields(v) == [kind |-> "yields", value |-> v]
Wrapped(c) == Obj(<< <<"extractedData", c>> >>)
PromptOutcomes ==
    {Throws, Yields(Null), Yields(Wrapped(Null)), Yields(Obj(<<>>))}
    \cup { Yields(Wrapped(c)) : c \in Candidates }

\* The outcomes tried on the page; the flows run on their own (FlowSpec) go
\* through all of PromptOutcomes.
PageOutcomes ==
    {Throws, Yields(Null), Yields(Wrapped(Null))}
    \cup { Yields(Wrapped(c)) :
            c \in {FullCandidate, With(FullCandidate, "invoice_items", Arr(<<>>))}
                  \cup LackingCandidates \cup StringNumberCandidates
                  \cup ExtraCandidates \cup ReorderedCandidates }

(***************************************************************************)
(* parseInvoiceFlow (parse-invoice.ts): one call of the prompt; its output *)
(* is checked against the output schema and returned as it is, or the flow *)
(* throws.  A flow result is [ok, value, error].                           *)
(***************************************************************************)
NoError == [name |-> "", issues |-> <<>>]
Returned(v) == [ok |-> TRUE, value |-> v, error |-> NoError]
Thrown(name, issues) ==
    [ok |-> FALSE, value |-> Null, error |-> [name |-> name, issues |-> issues]]

\* The flow body and its output check, for the given output schema.
FlowResult(schema, outcome) ==
    IF outcome.kind = "throws" THEN Thrown("GenerationError", <<>>)
    ELSE LET issues == Issues(schema, outcome.value, <<>>)
         IN  IF issues = <<>> THEN Returned(outcome.value)
             ELSE Thrown("ValidationError", issues)

parseInvoiceFlow(outcome) == FlowResult(ParseInvoiceOutputSchema, outcome)
P0_parseInvoiceFlow(outcome) == FlowResult(P0_ParseInvoiceOutputSchema, outcome)

\* parseInvoiceFlow tabulated over the outcomes, so that it is computed once each.
FlowTable == [o \in PromptOutcomes |-> parseInvoiceFlow(o)]

\* How many times the flow calls the prompt for one request.
PromptCallsPerFlow == 1

\* Variant of StageAfterFlow: a failed flow is run again.
StageAfterFlowRetry(result) == IF result.ok THEN "returned" ELSE "sent"

\* Where a request stands once the flow has run: the response travels back.
StageAfterFlow(result) == IF result.ok THEN "returned" ELSE "thrown"

RECURSIVE PathString(_)
PathString(path) ==
    IF path = <<>> THEN "(root)"
    ELSE IF Len(path) = 1 THEN path[1]
    ELSE path[1] \o "." \o PathString(Tail(path))
RECURSIVE IssuesString(_)
IssuesString(issues) ==
    IF issues = <<>> THEN ""
    ELSE " " \o PathString(issues[1].path) \o ": " \o issues[1].keyword \o ";"
            \o IssuesString(Tail(issues))
\* error.message of what the flow throws.
ErrorMessage(error) ==
    IF error.name = "ValidationError"
    THEN "Schema validation failed." \o IssuesString(error.issues)
    ELSE "The model call failed."

(***************************************************************************)
(* The page (page.tsx).                                                    *)
(***************************************************************************)
MaxUploads == 2
MaxParses == 1
MaxEdits == 1

PdfType == "application/pdf"
Files == { [name |-> "a.pdf", type |-> PdfType],
           [name |-> "b.pdf", type |-> PdfType],
           [name |-> "notes.txt", type |-> "text/plain"] }
Pdfs == { file \in Files : file.type = PdfType }
\* What the user may type into the text area: not JSON at all, and JSON
\* that is no invoice.
EditTexts == { << "{", Quote("invoice_number"), ": " >>, << "{}" >> }
\* How a conversion can end: the page was rendered, pdf.js failed, or the
\* reader gave no bytes / the canvas gave no 2d context.
ConversionOutcomes == {"rendered", "failed", "skipped"}

\* canvas.toDataURL('image/png') of the first page of the file at scale 1.5.
ToDataURL(file) == Str("data:image/png;base64," \o file.name \o "#1@1.5")

\* Variant of Truthy: the test `if (result)` in place of `if (result.extractedData)`.
TruthyResult(value) == TRUE

\* JavaScript truthiness of result.extractedData.
Truthy(value) ==
    CASE value.t = "null" -> FALSE
      [] value.t = "string" -> value.v # ""
      [] value.t = "number" -> value.v # 0
      [] OTHER -> TRUE

\* The value with the keys of every object in the declaration order of the
\* schema, undeclared keys after them.
RECURSIVE InSchemaOrder(_, _)
InSchemaOrder(schema, value) ==
    IF value.t = "object" /\ schema.kind = "object"
    THEN LET declared == SelectSeq(schema.shape, LAMBDA f : HasKey(value, f[1]))
             others == SelectSeq(value.v, LAMBDA p : p[1] \notin Range(ShapeKeys(schema)))
         IN  Obj([i \in DOMAIN declared |->
                    <<declared[i][1], InSchemaOrder(declared[i][2], Get(value, declared[i][1]))>>]
                 \o others)
    ELSE IF value.t = "array" /\ schema.kind = "array"
    THEN Arr([i \in DOMAIN value.v |-> InSchemaOrder(schema.item, value.v[i])])
    ELSE value

\* Variant of ReplaceText: the data re-built in schema order before it is written.
ReplaceTextSchemaOrder(extractedData) ==
    JSONstringify(InSchemaOrder(ExtractedDataSchema, extractedData))

\* The text handleParse puts into the text area for the extracted data.
ReplaceText(extractedData) == JSONstringify(extractedData)
\* Variant of InitialText: a template that lost its last field.
InitialTextShort == JSONstringify(Without(initialJson, "mode_of_payment"))

\* The text handleFileSelect and the first render put into the text area.
InitialText == JSONstringify(initialJson)
\* Variant of EditedText: typed text is taken only when it is the JSON "{}".
EditedTextValidated(text) == IF text = << "{}" >> THEN text ELSE << "rejected" >>

\* The text the text area's onChange stores for what was typed.
EditedText(text) == text

VARIABLES
    invoiceImage,   \* useState: Null or the data URI of the rendered page
    fileName,       \* useState: Null or the name of the selected file
    jsonData,       \* useState: the text of the text area
    isLoading,      \* useState
    status,         \* useState: the status line
    conversions,    \* how many conversions of each PDF file are under way
    calls,          \* parseInvoice requests under way
    timers,         \* pending "push to ERP" timers
    nUploads, nParses, nEdits,
    lastWrite,      \* history: the most recent write of jsonData: which operation,
                    \* the text typed (edit), the data the model gave (replace)
    settled,        \* history: prompt-call counts of the requests that ended
    nonPdfSeen,     \* history: a file that is not a PDF has been submitted
    flowRun         \* the flow modules run on their own (FlowSpec)

pageVars == <<invoiceImage, fileName, jsonData, isLoading, status>>
procVars == <<conversions, calls, timers>>
histVars == <<nUploads, nParses, nEdits, lastWrite, settled, nonPdfSeen>>
vars == <<pageVars, procVars, histVars, flowRun>>

NoRun == [module |-> "", outcome |-> Throws, result |-> Returned(Null)]

Init ==
    /\ invoiceImage = Null
    /\ fileName = Null
    /\ jsonData = InitialText
    /\ isLoading = FALSE
    /\ status = "Awaiting invoice upload."
    /\ conversions = [file \in Pdfs |-> 0]
    /\ calls = {}
    /\ timers = 0
    /\ nUploads = 0 /\ nParses = 0 /\ nEdits = 0
    /\ lastWrite = [op |-> "initialize", text |-> <<>>, data |-> Null]
    /\ settled = {}
    /\ nonPdfSeen = FALSE
    /\ flowRun = NoRun

\* Variant of Accepted: the media type is not looked at.
AcceptedAny(file) == TRUE

\* The test of handleFileSelect: the file's declared media type.
Accepted(file) == file.type = PdfType

\* handleFileSelect(file), with the synchronous start of convertPdfToImage.
HandleFileSelect(file) ==
    /\ nonPdfSeen' = (nonPdfSeen \/ file.type # PdfType)
    /\ IF Accepted(file)
       THEN /\ nUploads < MaxUploads
            /\ nUploads' = nUploads + 1
            /\ fileName' = Str(file.name)
            /\ invoiceImage' = Null
            /\ jsonData' = InitialText
            /\ lastWrite' = [op |-> "initialize", text |-> <<>>, data |-> Null]
            /\ status' = "Converting PDF to image..."
            /\ conversions' = [conversions EXCEPT ![file] = @ + 1]
       ELSE \* a toast, "Invalid File Type", and nothing else
            /\ UNCHANGED <<fileName, invoiceImage, jsonData, lastWrite, status, conversions,
                           nUploads>>
    /\ UNCHANGED <<isLoading, calls, timers, nParses, nEdits, settled, flowRun>>

\* Variant of ConvertPdfToImage: the catch block without setFileName(null).
ConvertPdfToImageKeepsName(file, outcome) ==
    /\ conversions[file] > 0
    /\ conversions' = [conversions EXCEPT ![file] = @ - 1]
    /\ CASE outcome = "rendered" ->
                /\ invoiceImage' = ToDataURL(file)
                /\ status' = "Ready to parse. Click the button below."
                /\ UNCHANGED fileName
         [] outcome = "failed" ->
                /\ status' = "Failed to process PDF. Please try another file."
                /\ invoiceImage' = Null
                /\ UNCHANGED fileName
         [] OTHER -> UNCHANGED <<invoiceImage, status, fileName>>
    /\ UNCHANGED <<jsonData, isLoading, calls, timers, histVars, flowRun>>

\* fileReader.onload of a conversion of file that is under way.
ConvertPdfToImage(file, outcome) ==
    /\ conversions[file] > 0
    /\ conversions' = [conversions EXCEPT ![file] = @ - 1]
    /\ CASE outcome = "rendered" ->
                /\ invoiceImage' = ToDataURL(file)
                /\ status' = "Ready to parse. Click the button below."
                /\ UNCHANGED fileName
         [] outcome = "failed" ->
                /\ status' = "Failed to process PDF. Please try another file."
                /\ invoiceImage' = Null
                /\ fileName' = Null
         [] OTHER -> UNCHANGED <<invoiceImage, status, fileName>>
    /\ UNCHANGED <<jsonData, isLoading, calls, timers, histVars, flowRun>>

\* The Parse button is disabled while isLoading or without an image.
ButtonEnabled == ~(isLoading \/ ~Truthy(invoiceImage))

\* Variant of HandleParse: the request leaves without setIsLoading(true).
HandleParseNotLoading ==
    /\ ButtonEnabled
    /\ nParses < MaxParses
    /\ Truthy(invoiceImage)
    /\ status' = "Extracting data with AI..."
    /\ nParses' = nParses + 1
    /\ calls' = calls \cup { [id |-> nParses + 1,
                              invoiceDataUri |-> invoiceImage,
                              stage |-> "sent",
                              invoked |-> 0,
                              outcome |-> Throws,
                              result |-> Returned(Null)] }
    /\ UNCHANGED <<invoiceImage, fileName, jsonData, isLoading, conversions, timers,
                   nUploads, nEdits, lastWrite, settled, nonPdfSeen, flowRun>>

\* handleParse up to its await: the request leaves with the image.
HandleParse ==
    /\ ButtonEnabled
    /\ nParses < MaxParses
    /\ IF ~Truthy(invoiceImage)
       THEN \* a toast, "No Invoice", and nothing else
            /\ UNCHANGED <<isLoading, status, calls, nParses>>
       ELSE /\ isLoading' = TRUE
            /\ status' = "Extracting data with AI..."
            /\ nParses' = nParses + 1
            /\ calls' = calls \cup { [id |-> nParses + 1,
                                      invoiceDataUri |-> invoiceImage,
                                      stage |-> "sent",
                                      invoked |-> 0,
                                      outcome |-> Throws,
                                      result |-> Returned(Null)] }
    /\ UNCHANGED <<invoiceImage, fileName, jsonData, conversions, timers,
                   nUploads, nEdits, lastWrite, settled, nonPdfSeen, flowRun>>

\* The server action: parseInvoice runs the flow on the request.
ParseInvoice(c, outcome) ==
    /\ c \in calls /\ c.stage = "sent"
    /\ LET result == FlowTable[outcome]
       IN  calls' = (calls \ {c}) \cup
                { [c EXCEPT !.invoked = c.invoked + PromptCallsPerFlow,
                            !.outcome = outcome,
                            !.result = result,
                            !.stage = StageAfterFlow(result)] }
    /\ UNCHANGED <<pageVars, conversions, timers, histVars, flowRun>>

\* handleParse after the await, the promise fulfilled.
HandleParseFulfilled(c) ==
    /\ c \in calls /\ c.stage = "returned"
    /\ calls' = calls \ {c}
    /\ settled' = settled \cup {c.invoked}
    /\ LET extractedData == Get(c.result.value, "extractedData")
       IN  IF Truthy(extractedData)
           THEN /\ jsonData' = ReplaceText(extractedData)
                /\ lastWrite' = [op |-> "replace", text |-> <<>>,
                                  data |-> Get(c.outcome.value, "extractedData")]
                /\ status' = "Data extracted successfully. Simulating push to ERP..."
                /\ timers' = timers + 1
                /\ UNCHANGED isLoading
           ELSE /\ status' = "Error: " \o "No data was extracted from the invoice."
                /\ isLoading' = FALSE
                /\ UNCHANGED <<jsonData, lastWrite, timers>>
    /\ UNCHANGED <<invoiceImage, fileName, conversions, nUploads, nParses, nEdits, nonPdfSeen, flowRun>>

\* handleParse after the await, the promise rejected: the catch block.
HandleParseRejected(c) ==
    /\ c \in calls /\ c.stage = "thrown"
    /\ calls' = calls \ {c}
    /\ settled' = settled \cup {c.invoked}
    /\ status' = "Error: " \o ErrorMessage(c.result.error)
    /\ isLoading' = FALSE
    /\ UNCHANGED <<invoiceImage, fileName, jsonData, conversions, timers,
                   nUploads, nParses, nEdits, lastWrite, nonPdfSeen, flowRun>>

\* Variant of PushTimer: the callback without setIsLoading(false).
PushTimerKeepsLoading ==
    /\ timers > 0
    /\ timers' = timers - 1
    /\ status' = "Successfully pushed to ERP."
    /\ UNCHANGED <<invoiceImage, fileName, jsonData, isLoading, conversions, calls,
                   histVars, flowRun>>

\* The callback of setTimeout(..., 1500).
PushTimer ==
    /\ timers > 0
    /\ timers' = timers - 1
    /\ status' = "Successfully pushed to ERP."
    /\ isLoading' = FALSE
    /\ UNCHANGED <<invoiceImage, fileName, jsonData, conversions, calls, histVars, flowRun>>

\* onChange of the text area.
Edit(text) ==
    /\ nEdits < MaxEdits
    /\ nEdits' = nEdits + 1
    /\ jsonData' = EditedText(text)
    /\ lastWrite' = [op |-> "edit", text |-> text, data |-> Null]
    /\ UNCHANGED <<invoiceImage, fileName, isLoading, status,
                   procVars, nUploads, nParses, settled, nonPdfSeen, flowRun>>

\* The page with PDF uploads and every outcome of PageOutcomes.  A file that
\* is not a PDF changes nothing on the page; it is submitted in SubmitSpec.
Next ==
    \/ \E file \in Pdfs : HandleFileSelect(file)
    \/ \E file \in Pdfs, outcome \in ConversionOutcomes : ConvertPdfToImage(file, outcome)
    \/ HandleParse
    \/ \E c \in calls, outcome \in PageOutcomes : ParseInvoice(c, outcome)
    \/ \E c \in calls : HandleParseFulfilled(c)
    \/ \E c \in calls : HandleParseRejected(c)
    \/ PushTimer
    \/ \E text \in EditTexts : Edit(text)

Spec == Init /\ [][Next]_vars

\* The ways a request can go in handleParse: the call fails, it returns no
\* data, it returns data.
LiveOutcomes == {Throws, Yields(Wrapped(Null)), Yields(Wrapped(FullCandidate))}

\* The page with PDF uploads only and one outcome for each way a request can go.
LiveNext ==
    \/ \E file \in Pdfs : HandleFileSelect(file)
    \/ \E file \in Pdfs, outcome \in ConversionOutcomes : ConvertPdfToImage(file, outcome)
    \/ HandleParse
    \/ \E c \in calls, outcome \in LiveOutcomes : ParseInvoice(c, outcome)
    \/ \E c \in calls : HandleParseFulfilled(c)
    \/ \E c \in calls : HandleParseRejected(c)
    \/ PushTimer
    \/ \E text \in EditTexts : Edit(text)

\* The page with any file submitted, and one outcome for each way a request
\* can go.
SubmitNext ==
    \/ \E file \in Files : HandleFileSelect(file)
    \/ \E file \in Pdfs, outcome \in ConversionOutcomes : ConvertPdfToImage(file, outcome)
    \/ HandleParse
    \/ \E c \in calls, outcome \in LiveOutcomes : ParseInvoice(c, outcome)
    \/ \E c \in calls : HandleParseFulfilled(c)
    \/ \E c \in calls : HandleParseRejected(c)
    \/ PushTimer
    \/ \E text \in EditTexts : Edit(text)

SubmitSpec == Init /\ [][SubmitNext]_vars

\* What the runtime guarantees: the server action answers or fails, the
\* promise of handleParse is settled, and a timer that was set fires.
\* Nothing is assumed of the user (uploads, clicks, edits) or of the file
\* reader.
Fairness ==
    /\ WF_vars(\E c \in calls, outcome \in LiveOutcomes : ParseInvoice(c, outcome))
    /\ WF_vars(\E c \in calls : HandleParseFulfilled(c))
    /\ WF_vars(\E c \in calls : HandleParseRejected(c))
    /\ WF_vars(PushTimer)

LiveSpec == Init /\ [][LiveNext]_vars /\ Fairness

(***************************************************************************)
(* The two flow definitions on their own: each run on every prompt outcome.*)
(***************************************************************************)
FlowModules == {"parse-invoice.ts", "part_000"}

RunFlow(module, outcome) ==
    /\ flowRun = NoRun
    /\ flowRun' = [module |-> module, outcome |-> outcome,
                   result |-> IF module = "part_000" THEN P0_parseInvoiceFlow(outcome)
                              ELSE parseInvoiceFlow(outcome)]
    /\ UNCHANGED <<pageVars, procVars, histVars>>

FlowDone ==
    /\ flowRun # NoRun
    /\ flowRun' = NoRun
    /\ UNCHANGED <<pageVars, procVars, histVars>>

FlowNext ==
    \/ \E module \in FlowModules, outcome \in PromptOutcomes : RunFlow(module, outcome)
    \/ FlowDone

FlowSpec == Init /\ [][FlowNext]_vars
(***************************************************************************)
(* Properties.                                                             *)
(***************************************************************************)
\* The flow has run on request c: its answer is in c.outcome and c.result.
Answered(c) == c.stage \in {"returned", "thrown"}
IsObject(v) == v.t = "object"
\* The object the model gave as extractedData for request c, Null when it gave none.
OutcomeCandidate(outcome) ==
    IF outcome.kind = "yields" /\ IsObject(outcome.value)
       /\ HasKey(outcome.value, "extractedData")
    THEN Get(outcome.value, "extractedData")
    ELSE Null
CandidateOf(c) == OutcomeCandidate(c.outcome)
\* The extractedData the flow returned for request c.
DataOf(c) == Get(c.result.value, "extractedData")
HasIssue(c, path, keyword) ==
    \E i \in DOMAIN c.result.error.issues :
        c.result.error.issues[i] = [path |-> <<"extractedData">> \o path, keyword |-> keyword]
\* The top-level keys the schema declares without .nullable().
RequiredTopKeys ==
    { ExtractedDataSchema.shape[i][1] :
        i \in { j \in DOMAIN ExtractedDataSchema.shape : ~ExtractedDataSchema.shape[j][2].nullable } }

\* The request c failed: the flow threw, or it returned extractedData null.
FailedParse(c) ==
    \/ c.stage = "thrown"
    \/ c.stage = "returned" /\ DataOf(c).t = "null"

LackingRequiredTexts ==
    { JSONstringify(x) : x \in { y \in Candidates : \E k \in RequiredTopKeys : ~HasKey(y, k) } }

\* C2: for every candidate that lacks invoice_number, or any other required
\* top-level field, the call fails with a validation error that names the
\* path of that field, and no such result is returned or stored.
C2_MissingRequiredFieldFails ==
    /\ \A c \in calls :
          Answered(c) =>
              LET cand == CandidateOf(c)
                  missing == IF IsObject(cand) THEN RequiredTopKeys \ KeySet(cand) ELSE {}
              IN  \A k \in missing :
                      /\ c.stage = "thrown"
                      /\ ~c.result.ok
                      /\ HasIssue(c, <<k>>, "required")
    /\ jsonData \notin LackingRequiredTexts

\* The flow has thrown on a candidate without invoice_number.
C2_Witness ==
    \E c \in calls :
        /\ c.stage = "thrown"
        /\ IsObject(CandidateOf(c))
        /\ ~HasKey(CandidateOf(c), "invoice_number")

\* The paths at which the schema declares a number and the value is a string.
RECURSIVE StringNumberPaths(_, _, _)
StringNumberPaths(schema, value, path) ==
    IF value.t = "string" /\ schema.kind = "number" THEN {path}
    ELSE IF value.t = "object" /\ schema.kind = "object"
    THEN UNION { IF HasKey(value, schema.shape[i][1])
                 THEN StringNumberPaths(schema.shape[i][2], Get(value, schema.shape[i][1]),
                                        Append(path, schema.shape[i][1]))
                 ELSE {} : i \in DOMAIN schema.shape }
    ELSE IF value.t = "array" /\ schema.kind = "array"
    THEN UNION { StringNumberPaths(schema.item, value.v[i], Append(path, ToString(i - 1)))
                 : i \in DOMAIN value.v }
    ELSE {}

\* The value with every string in a number's place turned into the number.
ParseFloat(str) == IF str = "47200" THEN 47200 ELSE 0
RECURSIVE Coerced(_, _)
Coerced(schema, value) ==
    IF value.t = "string" /\ schema.kind = "number" THEN Num(ParseFloat(value.v))
    ELSE IF value.t = "object" /\ schema.kind = "object"
    THEN Obj([i \in DOMAIN value.v |->
                LET k == value.v[i][1]
                    at == { j \in DOMAIN schema.shape : schema.shape[j][1] = k }
                IN  IF at = {} THEN value.v[i]
                    ELSE <<k, Coerced(schema.shape[CHOOSE j \in at : TRUE][2], value.v[i][2])>>])
    ELSE IF value.t = "array" /\ schema.kind = "array"
    THEN Arr([i \in DOMAIN value.v |-> Coerced(schema.item, value.v[i])])
    ELSE value

\* StringNumberPaths of the candidate of each outcome, tabulated.
StringNumberPathsOf ==
    [o \in PromptOutcomes |-> StringNumberPaths(ExtractedDataSchema, OutcomeCandidate(o), <<>>)]

StringNumberTexts ==
    { JSONstringify(x) : x \in StringNumberCandidates }
    \cup { JSONstringify(Coerced(ExtractedDataSchema, x)) : x \in StringNumberCandidates }

\* C3: for every candidate in which a numeric field carries a string such
\* as "47200", the call fails with a type error at that field; no result
\* with the string, or with the string coerced to a number, is returned or
\* stored.
C3_StringInNumberFieldFails ==
    /\ \A c \in calls :
          Answered(c) =>
              \A p \in StringNumberPathsOf[c.outcome] :
                  /\ c.stage = "thrown"
                  /\ ~c.result.ok
                  /\ HasIssue(c, p, "type")
    /\ jsonData \notin StringNumberTexts

\* The flow has thrown on the candidate with invoice_value: "47200".
C3_Witness ==
    \E c \in calls :
        /\ c.stage = "thrown"
        /\ CandidateOf(c) = With(FullCandidate, "invoice_value", Str("47200"))

\* The candidate has no invoice_items and is valid once it has one.
LacksOnlyItems(cand) ==
    /\ IsObject(cand)
    /\ ~HasKey(cand, "invoice_items")
    /\ Conforms(ExtractedDataSchema, With(cand, "invoice_items", Arr(<<>>)))

\* C4 as claimed: a candidate without invoice_items, otherwise valid, comes
\* back with invoice_items the empty list.
C4_AbsentItemsDefaulted ==
    \A c \in calls :
        (Answered(c) /\ LacksOnlyItems(CandidateOf(c))) =>
            /\ c.result.ok
            /\ Get(DataOf(c), "invoice_items") = Arr(<<>>)

\* C4 as amended: a candidate in which invoice_items, or any other declared
\* top-level field, nullable or not, is absent fails validation ("required"
\* at that field) and nothing is returned; what is returned has every
\* declared field exactly as the candidate carried it.
C4_AbsentFieldFails ==
    \A c \in calls :
        Answered(c) =>
            LET cand == CandidateOf(c)
                missing == IF IsObject(cand) THEN TopKeys \ KeySet(cand) ELSE {}
            IN  /\ \A k \in missing :
                      (c.stage = "thrown" /\ HasIssue(c, <<k>>, "required"))
                /\ (c.stage = "returned" /\ IsObject(cand)) =>
                      /\ missing = {}
                      /\ DataOf(c) = cand

\* The flow has thrown on the candidate that only lacks invoice_items.
C4_Witness ==
    \E c \in calls :
        /\ c.stage = "thrown"
        /\ LacksOnlyItems(CandidateOf(c))

\* C5 as claimed: a candidate with an undeclared top-level key, otherwise
\* valid, succeeds with the key dropped: the result's key set is the
\* schema's.
C5_ExtraKeyDropped ==
    \A c \in calls :
        (/\ Answered(c)
         /\ IsObject(CandidateOf(c))
         /\ Conforms(ExtractedDataSchema, CandidateOf(c))
         /\ ~(KeySet(CandidateOf(c)) \subseteq TopKeys)) =>
            /\ c.result.ok
            /\ KeySet(DataOf(c)) = TopKeys
\* The value has every field the schema declares, at every nesting level.
RECURSIVE HasAllFields(_, _)
HasAllFields(schema, value) ==
    IF value.t = "object" /\ schema.kind = "object"
    THEN \A i \in DOMAIN schema.shape :
            /\ HasKey(value, schema.shape[i][1])
            /\ HasAllFields(schema.shape[i][2], Get(value, schema.shape[i][1]))
    ELSE IF value.t = "array" /\ schema.kind = "array"
    THEN \A i \in DOMAIN value.v : HasAllFields(schema.item, value.v[i])
    ELSE TRUE

ClaimedRequired ==
    {"invoice_number", "invoice_date", "seller", "buyer", "invoice_items", "invoice_value"}

\* C6 as claimed: every non-null result a flow returns has every declared
\* field, and invoice_number, invoice_date, seller, buyer, invoice_items,
\* invoice_value, seller.name and buyer.name are never null in it.
C6_RequiredNeverNull ==
    (flowRun # NoRun /\ flowRun.result.ok) =>
        LET data == Get(flowRun.result.value, "extractedData")
        IN  data.t # "null" =>
                /\ HasAllFields(ExtractedDataSchema, data)
                /\ \A k \in ClaimedRequired : Get(data, k).t # "null"
                /\ Get(Get(data, "seller"), "name").t # "null"
                /\ Get(Get(data, "buyer"), "name").t # "null"

\* The object has exactly the fields the schema declares, at every level.
RECURSIVE ExactFields(_, _)
ExactFields(schema, value) ==
    IF value.t = "object" /\ schema.kind = "object"
    THEN /\ KeySet(value) = Range(ShapeKeys(schema))
         /\ Len(value.v) = Len(schema.shape)
         /\ \A i \in DOMAIN schema.shape :
                ExactFields(schema.shape[i][2], Get(value, schema.shape[i][1]))
    ELSE TRUE

\* Every scalar in the value is null or "", every array empty.
RECURSIVE Blank(_)
Blank(value) ==
    CASE value.t = "null" -> TRUE
      [] value.t = "string" -> value.v = ""
      [] value.t = "number" -> FALSE
      [] value.t = "array" -> value.v = <<>>
      [] value.t = "object" -> \A i \in DOMAIN value.v : Blank(value.v[i][2])

\* C7 as claimed: the template in the text area at the start and after every
\* accepted upload has exactly the schema's fields at every level, every
\* scalar null or "", every array empty.
C7_TemplateBlank ==
    lastWrite.op = "initialize" =>
        /\ jsonData = JSONstringify(initialJson)
        /\ ExactFields(ExtractedDataSchema, initialJson)
        /\ Blank(initialJson)

\* C7 as amended: the same, but for invoice_value, which is the number 0.
C7_TemplateBlankButValue ==
    lastWrite.op = "initialize" =>
        /\ jsonData = JSONstringify(initialJson)
        /\ ExactFields(ExtractedDataSchema, initialJson)
        /\ Blank(Without(initialJson, "invoice_value"))
        /\ Get(initialJson, "invoice_value") = Num(0)

\* An accepted upload has put the template back over an edited text.
C7_Witness ==
    /\ lastWrite.op = "initialize"
    /\ nEdits > 0
    /\ nUploads > 0

\* The text of each candidate, and the candidates that pass the schema, tabulated.
TextOf == [x \in Candidates |-> JSONstringify(x)]
SchemaOrderTextOf ==
    [x \in Candidates |-> JSONstringify(InSchemaOrder(ExtractedDataSchema, x))]
ValidCandidates == { x \in Candidates : Conforms(ExtractedDataSchema, x) }

\* C8 as claimed: after a successful extraction the text area holds the
\* result serialized with its keys in schema declaration order at every
\* level, whatever order the model gave them in.
C8_SchemaOrderStored ==
    lastWrite.op = "replace" => jsonData = SchemaOrderTextOf[lastWrite.data]

\* C8 as amended: after a successful extraction the text area holds the
\* validated result serialized with its keys in the order the model gave
\* them in, and that is the current value.
C8_ModelOrderStored ==
    lastWrite.op = "replace" =>
        /\ lastWrite.data \in ValidCandidates
        /\ jsonData = TextOf[lastWrite.data]

\* An extraction whose keys came in another order than the schema's was stored.
C8_Witness ==
    /\ lastWrite.op = "replace"
    /\ lastWrite.data = Reordered(FullCandidate)
    /\ jsonData # SchemaOrderTextOf[lastWrite.data]

\* The text the most recent write asked for.
WrittenText ==
    CASE lastWrite.op = "edit" -> lastWrite.text
      [] lastWrite.op = "replace" -> TextOf[lastWrite.data]
      [] OTHER -> JSONstringify(initialJson)

\* C9: an edit sets jsonData to exactly the text typed, valid JSON or not,
\* and changes neither image, file name, loading flag nor status; whatever
\* the interleaving of initialize, replace and edit, jsonData is the value
\* of the most recent write.
C9_EditVerbatimLastWriteWins ==
    /\ [](jsonData = WrittenText)
    /\ [][nEdits' # nEdits =>
            /\ jsonData' = lastWrite'.text
            /\ UNCHANGED <<invoiceImage, fileName, isLoading, status>>]_vars

\* Text that is not JSON was typed over a stored extraction.
C9_Witness ==
    /\ lastWrite.op = "edit"
    /\ jsonData = << "{", Quote("invoice_number"), ": " >>
    /\ timers > 0

\* C10: each parse calls the model exactly once, whether the call succeeds
\* or fails: a request that has been answered, or has ended, has one call
\* behind it, and one still waiting has none.
C10_PromptCalledOncePerParse ==
    /\ \A c \in calls : c.invoked = (IF c.stage = "sent" THEN 0 ELSE 1)
    /\ settled \subseteq {1}
    /\ Cardinality(calls) <= nParses

\* A parse has failed and ended, with one call of the model behind it.
C10_Witness ==
    /\ settled = {1}
    /\ calls = {}
    /\ status = "Error: The model call failed."
    /\ ~isLoading
\* C11: a submitted file whose media type is not application/pdf is rejected
\* before any conversion: the step starts no conversion and leaves the
\* image, the file name, the text area and the status as they were.
C11_NonPdfRejected ==
    [][nonPdfSeen' # nonPdfSeen =>
            /\ conversions' = conversions
            /\ nUploads' = nUploads
            /\ UNCHANGED <<invoiceImage, fileName, jsonData, status>>]_vars

\* A file that is not a PDF was submitted while a.pdf was on the page, and
\* a.pdf is still there, ready to be parsed.
C11_Witness ==
    /\ nonPdfSeen
    /\ nUploads = 1
    /\ nParses = 0
    /\ fileName = Str("a.pdf")
    /\ invoiceImage = ToDataURL([name |-> "a.pdf", type |-> PdfType])
    /\ status = "Ready to parse. Click the button below."
\* A document has been accepted since request c left: the request set the
\* status to "Extracting data with AI...", and only handleFileSelect, on
\* accepting a PDF, sets it to "Converting PDF to image...".
AcceptedSince(c) == c \in calls /\ status = "Converting PDF to image..."

\* C12 as claimed: once a new document has been accepted while an extraction
\* of an earlier document is in flight, the result of that extraction is
\* never written into the text area.
C12_EarlierResultNotWritten ==
    [][\A c \in calls :
            (AcceptedSince(c) /\ c \notin calls') => jsonData' = jsonData]_vars

\* C13 as claimed: an image on the page is the rendering of the most recently
\* accepted document, the one fileName names.
C13_ImageOfNamedFile ==
    invoiceImage # Null =>
        /\ fileName # Null
        /\ invoiceImage = ToDataURL([name |-> fileName.v, type |-> PdfType])

\* C18 as claimed: the status "Successfully pushed to ERP." is not shown
\* while the text area holds the template an upload has put there.
C18_NoPushOverNewUpload ==
    status = "Successfully pushed to ERP." => lastWrite.op # "initialize"
\* C17: every parse that starts ends with isLoading false, given that the
\* call returns or fails and the push timer fires, whatever uploads and
\* edits come in between.
C17_LoadingEnds == isLoading ~> ~isLoading

\* A parse has succeeded and its push timer has fired, with a second upload
\* and an edit on the way.
C17_Witness ==
    /\ ~isLoading
    /\ status = "Successfully pushed to ERP."
    /\ nParses > 0
    /\ nUploads > 1
    /\ nEdits > 0
\* A conversion ends and the status reads "Failed to process PDF...": the
\* catch block of convertPdfToImage has run, in this step or, when the
\* conversion that ends gave no bytes or no context, in an earlier one.
ConversionFailed ==
    /\ conversions' # conversions
    /\ status' = "Failed to process PDF. Please try another file."
\* No request leaves while there is no image.
NoParseWithoutImage ==
    [][invoiceImage = Null =>
            /\ {c.id : c \in calls'} \subseteq {c.id : c \in calls}
            /\ nParses' = nParses
            /\ isLoading' => isLoading]_vars

\* C14 as claimed: when the conversion of an accepted document fails, image
\* and file name are cleared and the text area holds the initial template,
\* and no extraction starts while there is no image.
C14_FailureLeavesTemplate ==
    /\ [][(ConversionFailed /\ status # status') =>
            /\ invoiceImage' = Null
            /\ fileName' = Null
            /\ jsonData' = InitialText]_vars
    /\ NoParseWithoutImage

\* C14 as amended: when the conversion fails, image and file name are
\* cleared and the text area is left as it is (the template, unless an edit
\* or an extraction result was written since the upload); while there is no
\* image no request leaves, and only a conversion that renders brings an
\* image back.
C14_FailureClearsImage ==
    /\ [][ConversionFailed =>
            /\ invoiceImage' = Null
            /\ fileName' = Null
            /\ jsonData' = jsonData
            /\ calls' = calls]_vars
    /\ NoParseWithoutImage
    /\ [][(invoiceImage = Null /\ invoiceImage' # Null) =>
            /\ conversions' # conversions
            /\ status' = "Ready to parse. Click the button below."]_vars

\* A conversion has failed after the user typed over the template.
C14_Witness ==
    /\ status = "Failed to process PDF. Please try another file."
    /\ invoiceImage = Null
    /\ fileName = Null
    /\ lastWrite.op = "edit"
    /\ nParses = 0

InstructedOf == [o \in PromptOutcomes |-> Instructed(PromptSchema, OutcomeCandidate(o))]

\* C15 as claimed: the shape the prompt asks for and the shape the answer is
\* validated against are the same: a candidate object passes the output
\* validation of the flow exactly when it is what the prompt asks for.
C15_InstructedIsValidated ==
    (/\ flowRun # NoRun
     /\ flowRun.module = "parse-invoice.ts"
     /\ IsObject(OutcomeCandidate(flowRun.outcome))) =>
        (InstructedOf[flowRun.outcome] <=> flowRun.result.ok)
====
